---- MODULE Spec2Model ----
(***************************************************************************)
(* Model of "Coaching app/generate_gauges.py": a batch script that draws   *)
(* eight gauge images with PIL and saves each as a PNG.                    *)
(*                                                                         *)
(* The script is modelled statement by statement.  A program is the        *)
(* sequence of the Python statements of a block or of a function body, in  *)
(* source order; a statement reads and writes the names of its scope when  *)
(* it executes.  The thrust, fuel and horizon blocks run in the module's   *)
(* global scope "G"; a call of create_gauge or create_standard_color_gauge *)
(* runs in a scope of its own (Python locals).  The print calls write to   *)
(* standard output only and are left out.                                  *)
(*                                                                         *)
(* An image is modelled by the ordered sequence of draw commands issued on *)
(* it, and is named after the gauge whose Image.new call created it (each  *)
(* gauge creates exactly one image).  A coordinate that the script         *)
(* computes as  c + r * math.cos(angle_rad)  is kept in the symbolic form  *)
(* [c, r, deg, fn]: the centre, the radius and the degrees handed to       *)
(* math.radians are recorded exactly as the code computes them (integers), *)
(* the floating point cos/sin is not evaluated.                            *)
(*                                                                         *)
(* Spec runs the script as written, one statement per step.  SpecCalls     *)
(* calls the two functions directly with arguments from ArgSet.  SpecPar   *)
(* generates the gauges in any order and preempts a gauge between any two  *)
(* of its statements while another gauge runs.                             *)
(***************************************************************************)
EXTENDS Integers, Sequences, FiniteSets, TLC

VARIABLES pc, iter, env, canvas, files, interfered, preempted, args

vars == <<pc, iter, env, canvas, files, interfered, preempted, args>>

\* ------------------------------------------------------------------------
\* Python helpers

\* range(start, stop, step) for step > 0, as a sequence.
rangeInclusiveStop(start, stop, step) ==
    [i \in 1..(IF stop >= start THEN ((stop - start) \div step) + 1 ELSE 0)
        |-> start + (i - 1) * step]

range(start, stop, step) ==
    [i \in 1..(IF stop > start THEN (stop - start + step - 1) \div step ELSE 0)
        |-> start + (i - 1) * step]

\* "x in seq" / "x not in seq"
InNever(x, seq) == FALSE

In(x, seq) == \E k \in 1..Len(seq) : seq[k] = x

\* seq[i] for a Python index i (negative indices count from the end); the
\* subscript raises IndexError outside -len(seq) .. len(seq)-1.
InRange(seq, i) == -Len(seq) <= i /\ i < Len(seq)
Subscr(seq, i) == seq[IF i >= 0 THEN i + 1 ELSE Len(seq) + i + 1]

\* enumerate(seq) / iter(seq): the items a for loop will bind, one tuple of
\* values per iteration.
Items(seq, enumerated) ==
    [k \in 1..Len(seq) |-> IF enumerated THEN <<k - 1, seq[k]>> ELSE <<seq[k]>>]

\* ------------------------------------------------------------------------
\* Points and draw commands.  An outline or width the call leaves out is
\* recorded with PIL's default ("None", 1).

Polar(c, r, deg) == [c |-> c, r |-> r, deg |-> deg]
XY(x, y) == [x |-> x, y |-> y]

\* The point (x, y) of two coordinates computed on a circle: the polar point
\* when they are the cos and sin coordinate of one point.
OnCirclePoint(x, y) ==
    IF x.fn = "cos" /\ y.fn = "sin" /\ x.c = y.c /\ x.r = y.r /\ x.deg = y.deg
      THEN Polar(x.c, x.r, x.deg)
      ELSE [cx |-> x, cy |-> y]

Ellipse(bbox, fill, outline, width) ==
    [op |-> "ellipse", bbox |-> bbox, fill |-> fill, outline |-> outline,
     width |-> width]
Pieslice(bbox, start, end, fill, outline, width) ==
    [op |-> "pieslice", bbox |-> bbox, start |-> start, end |-> end,
     fill |-> fill, outline |-> outline, width |-> width]
Line(p1, p2, fill, width) ==
    [op |-> "line", p1 |-> p1, p2 |-> p2, fill |-> fill, width |-> width]
Text(p, text, fill, anchor) ==
    [op |-> "text", p |-> p, text |-> text, fill |-> fill, anchor |-> anchor]
Rectangle(bbox, fill, outline, width) ==
    [op |-> "rectangle", bbox |-> bbox, fill |-> fill, outline |-> outline,
     width |-> width]
Polygon(pts, fill) == [op |-> "polygon", pts |-> pts, fill |-> fill]

\* ------------------------------------------------------------------------
\* Expressions and conditions of the statements, evaluated in a scope e.

K(v) == [e |-> "const", v |-> v]
N(n) == [e |-> "name", n |-> n]
Plus(a, b) == [e |-> "+", a |-> a, b |-> b]
Minus(a, b) == [e |-> "-", a |-> a, b |-> b]
Times(a, b) == [e |-> "*", a |-> a, b |-> b]
FloorDiv(a, b) == [e |-> "//", a |-> a, b |-> b]
Range(a, b, c) == [e |-> "range", a |-> a, b |-> b, c |-> c]
Subscript(a, b) == [e |-> "subscript", a |-> a, b |-> b]
Radians(a) == [e |-> "radians", a |-> a]
\* c + r * math.cos(ang)  /  c + r * math.sin(ang)
OnCircle(c, r, fn, ang) == [e |-> "on_circle", c |-> c, r |-> r, fn |-> fn, ang |-> ang]
\* angle_orig + 90 + 180 in the thrust block / in create_standard_color_gauge
Rotated(by, a) == [e |-> by, a |-> a]
\* draw.textbbox((x, y), text, anchor=...): the text metrics belong to the
\* drawing surface; the box it returns is recorded by the arguments of the
\* call.
TextBBox(xy, circle, text, anchor) ==
    [e |-> "textbbox", xy |-> xy, circle |-> circle, text |-> text,
     anchor |-> anchor]

\* x == y, x != y, x not in y, "if x:" for a string x, and
\* "i < len(labels) and labels[i]"
Eq(a, b) == [c |-> "==", a |-> a, b |-> b]
Ne(a, b) == [c |-> "!=", a |-> a, b |-> b]
NotIn(a, b) == [c |-> "not in", a |-> a, b |-> b]
Truthy(a) == [c |-> "truthy", a |-> a]
HasLabel(labels, i) == [c |-> "has_label", a |-> labels, b |-> i]

\* angle = angle_orig + 90 + 180 (thrust block)
thrust_angle(angle_orig) == angle_orig + 90 + 180

std_angle_quarter(angle_orig) == angle_orig + 90

\* angle = angle_orig + 90 + 180 (create_standard_color_gauge)
std_angle(angle_orig) == angle_orig + 90 + 180

PointOf(x, y, circle) == IF circle THEN OnCirclePoint(x, y) ELSE XY(x, y)

RECURSIVE Eval(_, _)
Eval(x, e) ==
    CASE x.e = "const" -> x.v
      [] x.e = "name" -> e[x.n]
      [] x.e = "+" -> Eval(x.a, e) + Eval(x.b, e)
      [] x.e = "-" -> Eval(x.a, e) - Eval(x.b, e)
      [] x.e = "*" -> Eval(x.a, e) * Eval(x.b, e)
      [] x.e = "//" -> Eval(x.a, e) \div Eval(x.b, e)
      [] x.e = "range" -> range(Eval(x.a, e), Eval(x.b, e), Eval(x.c, e))
      [] x.e = "subscript" -> Subscr(Eval(x.a, e), Eval(x.b, e))
      [] x.e = "radians" -> Eval(x.a, e)
      [] x.e = "on_circle" ->
           [c |-> Eval(x.c, e), r |-> Eval(x.r, e), deg |-> Eval(x.ang, e),
            fn |-> x.fn]
      [] x.e = "thrust_angle" -> thrust_angle(Eval(x.a, e))
      [] x.e = "std_angle" -> std_angle(Eval(x.a, e))
      [] x.e = "textbbox" ->
           [fn |-> "textbbox",
            p |-> PointOf(Eval(x.xy[1], e), Eval(x.xy[2], e), x.circle),
            text |-> Eval(x.text, e), anchor |-> x.anchor]

EvalAll(xs, e) == [k \in 1..Len(xs) |-> Eval(xs[k], e)]

EvalCond(c, e) ==
    CASE c.c = "==" -> Eval(c.a, e) = Eval(c.b, e)
      [] c.c = "!=" -> Eval(c.a, e) # Eval(c.b, e)
      [] c.c = "not in" -> ~In(Eval(c.a, e), Eval(c.b, e))
      [] c.c = "truthy" -> Eval(c.a, e) # ""
      [] c.c = "has_label" ->
           /\ Eval(c.b, e) < Len(Eval(c.a, e))
           /\ Subscr(Eval(c.a, e), Eval(c.b, e)) # ""

\* Draw calls: the arguments are expressions.  `circle` tells that the
\* coordinates are the names computed with math.cos / math.sin.
DrawEllipse(bbox, fill, outline, width) == Ellipse(bbox, fill, outline, width)
DrawPieslice(bbox, start, end, fill, outline, width) ==
    Pieslice(bbox, start, end, fill, outline, width)
DrawRectangle(bbox, fill, outline, width) == Rectangle(bbox, fill, outline, width)
DrawLine(xy, circle, fill, width) ==
    [op |-> "line", xy |-> xy, circle |-> circle, fill |-> fill, width |-> width]
DrawText(xy, circle, text, fill, anchor) ==
    [op |-> "text", xy |-> xy, circle |-> circle, text |-> text, fill |-> fill,
     anchor |-> anchor]
DrawPolygon(pts, fill) == Polygon(pts, fill)

\* The command a draw call issues in the scope e.
EvalCmd(c, e) ==
    CASE c.op \in {"ellipse", "pieslice", "rectangle"} ->
           [c EXCEPT !.bbox = EvalAll(c.bbox, e)]
      [] c.op = "line" ->
           Line(PointOf(Eval(c.xy[1], e), Eval(c.xy[2], e), c.circle),
                PointOf(Eval(c.xy[3], e), Eval(c.xy[4], e), c.circle),
                c.fill, c.width)
      [] c.op = "text" ->
           Text(PointOf(Eval(c.xy[1], e), Eval(c.xy[2], e), c.circle),
                Eval(c.text, e), c.fill, c.anchor)
      [] c.op = "polygon" ->
           Polygon([k \in 1..Len(c.pts) |-> EvalAll(c.pts[k], e)], c.fill)

\* labels[i] raises IndexError
SubscriptRaises(x, e) ==
    x.e = "subscript" /\ ~InRange(Eval(x.a, e), Eval(x.b, e))

\* ------------------------------------------------------------------------
\* Statements.  `line` is the statement's line in generate_gauges.py.  A
\* statement is followed by the next one of its program unless it names the
\* label it continues at (the end of a loop body or of an if branch).

CallStmt(line, params, values) ==
    [op |-> "call", line |-> line, params |-> params, values |-> values]
NewImageStmt(line, size) == [op |-> "new_image", line |-> line, size |-> size]
BindDrawStmt(line) == [op |-> "bind_draw", line |-> line]
AssignStmt(line, var, val) == [op |-> "assign", line |-> line, var |-> var, val |-> val]
DrawStmt(line, cmd) == [op |-> "draw", line |-> line, cmd |-> cmd]
\* "for targets in iterable:" - the iterator is taken once (ForStart), each
\* iteration binds the next item or leaves the loop (ForNext).
ForStartStmt(line, iterable, enumerated) ==
    [op |-> "for_start", line |-> line, iterable |-> iterable,
     enumerated |-> enumerated]
ForNextStmt(line, targets, exit) ==
    [op |-> "for_next", line |-> line, targets |-> targets, exit |-> exit]
IfStmt(line, cond, else) == [op |-> "if", line |-> line, cond |-> cond, else |-> else]
SaveStmt(line, file) == [op |-> "save", line |-> line, file |-> file]

At(label, s) == s @@ [label |-> label]
Then(s, label) == s @@ [goto |-> label]

Ks(vs) == [k \in 1..Len(vs) |-> K(vs[k])]

\* x = center + (outer_radius - k) * math.cos(angle_rad)
\* y = center + (outer_radius - k) * math.sin(angle_rad)
CircleX(line, var, k) ==
    AssignStmt(line, var, OnCircle(N("center"), Minus(N("outer_radius"), K(k)),
                               "cos", N("angle_rad")))
CircleY(line, var, k) ==
    AssignStmt(line, var, OnCircle(N("center"), Minus(N("outer_radius"), K(k)),
                               "sin", N("angle_rad")))

\* draw.ellipse([center-15, center-15, center+15, center+15], ...)
HubBBox ==
    << Minus(N("center"), K(15)), Minus(N("center"), K(15)),
       Plus(N("center"), K(15)), Plus(N("center"), K(15)) >>

\* ------------------------------------------------------------------------
\* create_gauge(filename, gauge_type, title, subtitle): the function body

create_gauge_labels(gauge_type) ==
    IF gauge_type = "fuel" THEN <<"E", "", "", "", "", "", "F">>
    ELSE IF gauge_type = "compass"
      THEN <<"N", "", "", "E", "", "", "S", "", "", "W", "", "">>
    ELSE <<"0", "", "", "", "50", "", "", "", "100">>

create_gauge_minor_angles(gauge_type) ==
    IF gauge_type = "fuel" THEN range(180, 361, 10)
    ELSE IF gauge_type = "compass" THEN range(0, 360, 10)
    ELSE range(-120, 121, 10)

create_gauge ==
    << AssignStmt(13, "size", K(400)),
       NewImageStmt(14, <<N("size"), N("size")>>),
       BindDrawStmt(15),
       AssignStmt(17, "center", FloorDiv(N("size"), K(2))),
       AssignStmt(18, "outer_radius", K(180)),
       AssignStmt(19, "inner_radius", K(140)),
       DrawStmt(22, DrawEllipse(<<K(20), K(20), Minus(N("size"), K(20)),
                              Minus(N("size"), K(20))>>,
                            "#1a1a2e", "#0f3460", 3)),
       DrawStmt(25, DrawEllipse(<<K(60), K(60), Minus(N("size"), K(60)),
                              Minus(N("size"), K(60))>>,
                            "#16213e", "#0f3460", 2)),
       IfStmt(28, Eq(N("gauge_type"), K("fuel")), "elif_compass"),
       AssignStmt(30, "start_angle", K(180)),
       AssignStmt(31, "end_angle", K(360)),
       AssignStmt(32, "angles",
              Range(N("start_angle"), Plus(N("end_angle"), K(1)), K(30))),
       Then(AssignStmt(33, "labels", K(create_gauge_labels("fuel"))), "major_loop"),
       At("elif_compass", IfStmt(34, Eq(N("gauge_type"), K("compass")), "else_standard")),
       AssignStmt(36, "start_angle", K(0)),
       AssignStmt(37, "end_angle", K(360)),
       AssignStmt(38, "angles", Range(K(0), K(360), K(30))),
       Then(AssignStmt(39, "labels", K(create_gauge_labels("compass"))), "major_loop"),
       At("else_standard", AssignStmt(42, "start_angle", K(-120))),
       AssignStmt(43, "end_angle", K(120)),
       AssignStmt(44, "angles",
              Range(N("start_angle"), Plus(N("end_angle"), K(1)), K(30))),
       AssignStmt(45, "labels", K(create_gauge_labels("standard"))),
       At("major_loop", ForStartStmt(48, N("angles"), TRUE)),
       At("major_next", ForNextStmt(48, <<"i", "angle">>, "minor_angles")),
       AssignStmt(49, "angle_rad", Radians(N("angle"))),
       CircleX(52, "x1", 25),
       CircleY(53, "y1", 25),
       CircleX(54, "x2", 10),
       CircleY(55, "y2", 10),
       DrawStmt(56, DrawLine(<<N("x1"), N("y1"), N("x2"), N("y2")>>, TRUE,
                         "#e94560", 3)),
       IfStmt(59, HasLabel(N("labels"), N("i")), "major_next"),
       CircleX(60, "label_x", 45),
       CircleY(61, "label_y", 45),
       AssignStmt(63, "bbox", TextBBox(<<N("label_x"), N("label_y")>>, TRUE,
                                      Subscript(N("labels"), N("i")), "mm")),
       Then(DrawStmt(64, DrawText(<<N("label_x"), N("label_y")>>, TRUE,
                              Subscript(N("labels"), N("i")), "#ffffff", "mm")),
            "major_next"),
       At("minor_angles", AssignStmt(67, "minor_angles", K(<<>>))),
       IfStmt(68, Eq(N("gauge_type"), K("fuel")), "minor_elif_compass"),
       Then(AssignStmt(69, "minor_angles", K(create_gauge_minor_angles("fuel"))),
            "minor_loop"),
       At("minor_elif_compass",
          IfStmt(70, Eq(N("gauge_type"), K("compass")), "minor_else")),
       Then(AssignStmt(71, "minor_angles", K(create_gauge_minor_angles("compass"))),
            "minor_loop"),
       At("minor_else",
          AssignStmt(73, "minor_angles", K(create_gauge_minor_angles("standard")))),
       At("minor_loop", ForStartStmt(75, N("minor_angles"), FALSE)),
       At("minor_next", ForNextStmt(75, <<"angle">>, "hub")),
       IfStmt(76, NotIn(N("angle"), N("angles")), "minor_next"),
       AssignStmt(77, "angle_rad", Radians(N("angle"))),
       CircleX(78, "x1", 20),
       CircleY(79, "y1", 20),
       CircleX(80, "x2", 10),
       CircleY(81, "y2", 10),
       Then(DrawStmt(82, DrawLine(<<N("x1"), N("y1"), N("x2"), N("y2")>>, TRUE,
                              "#533483", 2)),
            "minor_next"),
       At("hub", DrawStmt(85, DrawEllipse(HubBBox, "#2d2d44", "#e94560", 2))),
       IfStmt(88, Truthy(N("title")), "if_subtitle"),
       DrawStmt(89, DrawText(<<N("center"), K(80)>>, FALSE, N("title"),
                         "#ffffff", "mm")),
       At("if_subtitle", IfStmt(90, Truthy(N("subtitle")), "save")),
       DrawStmt(91, DrawText(<<N("center"), K(320)>>, FALSE, N("subtitle"),
                         "#aaaaaa", "mm")),
       At("save", SaveStmt(94, N("filename"))) >>

\* ------------------------------------------------------------------------
\* Thrust gauge block (module level)

thrust_zones ==
    << DrawPieslice(Ks(<<60, 60, 340, 340>>), 150, 230, "#fca5a5", "#dc2626", 2),
       DrawPieslice(Ks(<<60, 60, 340, 340>>), 230, 310, "#fde68a", "#fbbf24", 2),
       DrawPieslice(Ks(<<60, 60, 340, 340>>), 310, 390, "#bbf7d0", "#22c55e", 2) >>

thrust_angles_original == range(-120, 121, 30)
thrust_labels == <<"0", "", "", "", "50", "", "", "", "100">>
thrust_minor_angles_original == range(-120, 121, 10)

thrust_block ==
    << NewImageStmt(104, <<K(400), K(400)>>),
       BindDrawStmt(105),
       AssignStmt(106, "center", K(200)),
       AssignStmt(107, "outer_radius", K(180)),
       DrawStmt(110, DrawEllipse(Ks(<<20, 20, 380, 380>>), "#ffffff", "#cccccc", 3)),
       DrawStmt(118, thrust_zones[1]),
       DrawStmt(121, thrust_zones[2]),
       DrawStmt(124, thrust_zones[3]),
       DrawStmt(127, DrawEllipse(Ks(<<100, 100, 300, 300>>), "#ffffff", "#cccccc", 2)),
       AssignStmt(133, "angles_original", K(thrust_angles_original)),
       AssignStmt(134, "labels", K(thrust_labels)),
       ForStartStmt(137, N("angles_original"), TRUE),
       At("major_next", ForNextStmt(137, <<"i", "angle_orig">>, "minor_angles")),
       AssignStmt(138, "angle", Rotated("thrust_angle", N("angle_orig"))),
       AssignStmt(139, "angle_rad", Radians(N("angle"))),
       CircleX(142, "x1", 25),
       CircleY(143, "y1", 25),
       CircleX(144, "x2", 10),
       CircleY(145, "y2", 10),
       DrawStmt(146, DrawLine(<<N("x1"), N("y1"), N("x2"), N("y2")>>, TRUE,
                          "#000000", 3)),
       IfStmt(149, HasLabel(N("labels"), N("i")), "major_next"),
       CircleX(150, "label_x", 45),
       CircleY(151, "label_y", 45),
       Then(DrawStmt(152, DrawText(<<N("label_x"), N("label_y")>>, TRUE,
                               Subscript(N("labels"), N("i")), "#000000", "mm")),
            "major_next"),
       At("minor_angles",
          AssignStmt(155, "minor_angles_original", K(thrust_minor_angles_original))),
       ForStartStmt(156, N("minor_angles_original"), FALSE),
       At("minor_next", ForNextStmt(156, <<"angle_orig">>, "title")),
       AssignStmt(157, "angle", Rotated("thrust_angle", N("angle_orig"))),
       IfStmt(158, NotIn(N("angle_orig"), N("angles_original")), "minor_next"),
       AssignStmt(159, "angle_rad", Radians(N("angle"))),
       CircleX(160, "x1", 20),
       CircleY(161, "y1", 20),
       CircleX(162, "x2", 10),
       CircleY(163, "y2", 10),
       Then(DrawStmt(164, DrawLine(<<N("x1"), N("y1"), N("x2"), N("y2")>>, TRUE,
                               "#666666", 2)),
            "minor_next"),
       At("title", DrawStmt(167, DrawText(<<N("center"), K(70)>>, FALSE, K("THRUST"),
                                      "#000000", "mm"))),
       DrawStmt(168, DrawText(<<N("center"), K(330)>>, FALSE, K("Power"),
                          "#666666", "mm")),
       DrawStmt(171, DrawEllipse(HubBBox, "#cccccc", "#000000", 2)),
       SaveStmt(173, K("images/thrust-gauge.png")) >>

\* ------------------------------------------------------------------------
\* create_standard_color_gauge(filename, title, subtitle): the function body

std_zones_gap ==
    << DrawPieslice(Ks(<<60, 60, 340, 340>>), 150, 230, "#fca5a5", "#dc2626", 2),
       DrawPieslice(Ks(<<60, 60, 340, 340>>), 240, 310, "#fde68a", "#fbbf24", 2),
       DrawPieslice(Ks(<<60, 60, 340, 340>>), 310, 390, "#bbf7d0", "#22c55e", 2) >>

std_zones_overlap ==
    << DrawPieslice(Ks(<<60, 60, 340, 340>>), 150, 230, "#fca5a5", "#dc2626", 2),
       DrawPieslice(Ks(<<60, 60, 340, 340>>), 230, 310, "#fde68a", "#fbbf24", 2),
       DrawPieslice(Ks(<<60, 60, 340, 340>>), 300, 390, "#bbf7d0", "#22c55e", 2) >>

std_zones ==
    << DrawPieslice(Ks(<<60, 60, 340, 340>>), 150, 230, "#fca5a5", "#dc2626", 2),
       DrawPieslice(Ks(<<60, 60, 340, 340>>), 230, 310, "#fde68a", "#fbbf24", 2),
       DrawPieslice(Ks(<<60, 60, 340, 340>>), 310, 390, "#bbf7d0", "#22c55e", 2) >>

std_angles_original == range(-120, 121, 30)

std_labels_shifted == <<"0", "", "", "50", "", "", "", "", "100">>

std_labels == <<"0", "", "", "", "50", "", "", "", "100">>

std_minor_angles_original == range(-120, 121, 10)

\* The white inner face followed by the zones (a face that would paint over
\* the zones).
std_zones_and_face_swapped ==
    << DrawStmt(195, DrawEllipse(Ks(<<100, 100, 300, 300>>), "#ffffff", "#cccccc", 2)),
       DrawStmt(188, std_zones[1]),
       DrawStmt(190, std_zones[2]),
       DrawStmt(192, std_zones[3]) >>

\* The three zone pie slices, then the white inner face.
std_zones_and_face ==
    << DrawStmt(188, std_zones[1]),
       DrawStmt(190, std_zones[2]),
       DrawStmt(192, std_zones[3]),
       DrawStmt(195, DrawEllipse(Ks(<<100, 100, 300, 300>>), "#ffffff", "#cccccc", 2)) >>

create_standard_color_gauge ==
    << NewImageStmt(178, <<K(400), K(400)>>),
       BindDrawStmt(179),
       AssignStmt(180, "center", K(200)),
       AssignStmt(181, "outer_radius", K(180)),
       DrawStmt(184, DrawEllipse(Ks(<<20, 20, 380, 380>>), "#ffffff", "#cccccc", 3)) >>
    \o std_zones_and_face
    \o << AssignStmt(198, "angles_original", K(std_angles_original)),
          AssignStmt(199, "labels", K(std_labels)),
          ForStartStmt(202, N("angles_original"), TRUE),
          At("major_next", ForNextStmt(202, <<"i", "angle_orig">>, "minor_angles")),
          AssignStmt(203, "angle", Rotated("std_angle", N("angle_orig"))),
          AssignStmt(204, "angle_rad", Radians(N("angle"))),
          CircleX(206, "x1", 25),
          CircleY(207, "y1", 25),
          CircleX(208, "x2", 10),
          CircleY(209, "y2", 10),
          DrawStmt(210, DrawLine(<<N("x1"), N("y1"), N("x2"), N("y2")>>, TRUE,
                             "#000000", 3)),
          IfStmt(212, HasLabel(N("labels"), N("i")), "major_next"),
          CircleX(213, "label_x", 45),
          CircleY(214, "label_y", 45),
          Then(DrawStmt(215, DrawText(<<N("label_x"), N("label_y")>>, TRUE,
                                  Subscript(N("labels"), N("i")), "#000000", "mm")),
               "major_next"),
          At("minor_angles",
             AssignStmt(218, "minor_angles_original", K(std_minor_angles_original))),
          ForStartStmt(219, N("minor_angles_original"), FALSE),
          At("minor_next", ForNextStmt(219, <<"angle_orig">>, "title")),
          AssignStmt(220, "angle", Rotated("std_angle", N("angle_orig"))),
          IfStmt(221, NotIn(N("angle_orig"), N("angles_original")), "minor_next"),
          AssignStmt(222, "angle_rad", Radians(N("angle"))),
          CircleX(223, "x1", 20),
          CircleY(224, "y1", 20),
          CircleX(225, "x2", 10),
          CircleY(226, "y2", 10),
          Then(DrawStmt(227, DrawLine(<<N("x1"), N("y1"), N("x2"), N("y2")>>, TRUE,
                                  "#666666", 2)),
               "minor_next"),
          At("title", DrawStmt(230, DrawText(<<N("center"), K(70)>>, FALSE, N("title"),
                                         "#000000", "mm"))),
          DrawStmt(231, DrawText(<<N("center"), K(330)>>, FALSE, N("subtitle"),
                             "#666666", "mm")),
          DrawStmt(234, DrawEllipse(HubBBox, "#cccccc", "#000000", 2)),
          SaveStmt(236, N("filename")) >>

\* ------------------------------------------------------------------------
\* Fuel gauge block (module level)

fuel_zones_wide ==
    << DrawPieslice(Ks(<<60, 60, 340, 340>>), 270, 330, "#bbf7d0", "#22c55e", 2),
       DrawPieslice(Ks(<<60, 60, 340, 340>>), 330, 40, "#fde68a", "#fbbf24", 2),
       DrawPieslice(Ks(<<60, 60, 340, 340>>), 30, 90, "#fca5a5", "#dc2626", 2) >>

fuel_zones ==
    << DrawPieslice(Ks(<<60, 60, 340, 340>>), 270, 330, "#bbf7d0", "#22c55e", 2),
       DrawPieslice(Ks(<<60, 60, 340, 340>>), 330, 30, "#fde68a", "#fbbf24", 2),
       DrawPieslice(Ks(<<60, 60, 340, 340>>), 30, 90, "#fca5a5", "#dc2626", 2) >>

fuel_angles == <<270, 300, 330, 0, 30, 60, 90>>

fuel_labels_reversed == <<"E", "", "", "", "", "", "F">>

fuel_labels == <<"F", "", "", "", "", "", "E">>

fuel_minor_angles == range(270, 360, 10) \o range(0, 91, 10)

\* The fuel pump icon, drawn around (pump_x, pump_y) = (center-60, center-10).
fuel_pump_icon ==
    << AssignStmt(303, "pump_x", Minus(N("center"), K(60))),
       AssignStmt(304, "pump_y", Minus(N("center"), K(10))),
       DrawStmt(308, DrawRectangle(<<Minus(N("pump_x"), K(20)), Minus(N("pump_y"), K(25)),
                                 Plus(N("pump_x"), K(20)), Plus(N("pump_y"), K(25))>>,
                               "#666666", "#333333", 1)),
       DrawStmt(311, DrawRectangle(<<Minus(N("pump_x"), K(25)), Minus(N("pump_y"), K(15)),
                                 Minus(N("pump_x"), K(20)), Minus(N("pump_y"), K(5))>>,
                               "#666666", "#333333", 1)),
       DrawStmt(314, DrawRectangle(<<Minus(N("pump_x"), K(12)), Minus(N("pump_y"), K(15)),
                                 Plus(N("pump_x"), K(12)), Minus(N("pump_y"), K(5))>>,
                               "#ffffff", "#333333", 1)),
       AssignStmt(317, "droplet_top_x", N("pump_x")),
       AssignStmt(318, "droplet_top_y", Plus(N("pump_y"), K(5))),
       DrawStmt(319, DrawEllipse(<<Minus(N("droplet_top_x"), K(6)), N("droplet_top_y"),
                               Plus(N("droplet_top_x"), K(6)),
                               Plus(N("droplet_top_y"), K(12))>>,
                             "#666666", "None", 1)),
       DrawStmt(320, DrawPolygon(<< <<N("droplet_top_x"), Minus(N("droplet_top_y"), K(8))>>,
                                <<Minus(N("droplet_top_x"), K(6)), N("droplet_top_y")>>,
                                <<Plus(N("droplet_top_x"), K(6)), N("droplet_top_y")>> >>,
                             "#666666")) >>

fuel_block ==
    << NewImageStmt(246, <<K(400), K(400)>>),
       BindDrawStmt(247),
       AssignStmt(248, "center", K(200)),
       AssignStmt(249, "outer_radius", K(180)),
       DrawStmt(252, DrawEllipse(Ks(<<20, 20, 380, 380>>), "#ffffff", "#cccccc", 3)),
       DrawStmt(256, fuel_zones[1]),
       DrawStmt(259, fuel_zones[2]),
       DrawStmt(262, fuel_zones[3]),
       DrawStmt(265, DrawEllipse(Ks(<<100, 100, 300, 300>>), "#ffffff", "#cccccc", 2)),
       AssignStmt(268, "start_angle", K(270)),
       AssignStmt(269, "end_angle", K(90)),
       AssignStmt(270, "angles", K(fuel_angles)),
       AssignStmt(271, "labels", K(fuel_labels)),
       ForStartStmt(274, N("angles"), TRUE),
       At("major_next", ForNextStmt(274, <<"i", "angle">>, "minor_angles")),
       AssignStmt(275, "angle_rad", Radians(N("angle"))),
       CircleX(278, "x1", 25),
       CircleY(279, "y1", 25),
       CircleX(280, "x2", 10),
       CircleY(281, "y2", 10),
       DrawStmt(282, DrawLine(<<N("x1"), N("y1"), N("x2"), N("y2")>>, TRUE,
                          "#000000", 3)),
       IfStmt(285, HasLabel(N("labels"), N("i")), "major_next"),
       CircleX(286, "label_x", 45),
       CircleY(287, "label_y", 45),
       Then(DrawStmt(288, DrawText(<<N("label_x"), N("label_y")>>, TRUE,
                               Subscript(N("labels"), N("i")), "#000000", "mm")),
            "major_next"),
       At("minor_angles", AssignStmt(291, "minor_angles", K(fuel_minor_angles))),
       ForStartStmt(292, N("minor_angles"), FALSE),
       At("minor_next", ForNextStmt(292, <<"angle">>, "pump_icon")),
       IfStmt(293, NotIn(N("angle"), N("angles")), "minor_next"),
       AssignStmt(294, "angle_rad", Radians(N("angle"))),
       CircleX(295, "x1", 20),
       CircleY(296, "y1", 20),
       CircleX(297, "x2", 10),
       CircleY(298, "y2", 10),
       Then(DrawStmt(299, DrawLine(<<N("x1"), N("y1"), N("x2"), N("y2")>>, TRUE,
                               "#666666", 2)),
            "minor_next") >>
    \o <<At("pump_icon", fuel_pump_icon[1])>> \o Tail(fuel_pump_icon)
    \o << DrawStmt(323, DrawText(<<N("center"), K(70)>>, FALSE, K("FUEL"),
                             "#000000", "mm")),
          DrawStmt(324, DrawText(<<N("center"), K(330)>>, FALSE, K("Energy Level"),
                             "#666666", "mm")),
          DrawStmt(327, DrawEllipse(HubBBox, "#cccccc", "#000000", 2)),
          SaveStmt(329, K("images/fuel-gauge.png")) >>

\* ------------------------------------------------------------------------
\* Horizon gauge block (module level)

horizon_ticks == range(-30, 31, 10)

horizon_block ==
    << NewImageStmt(336, <<K(400), K(400)>>),
       BindDrawStmt(337),
       AssignStmt(338, "center", K(200)),
       DrawStmt(341, DrawEllipse(Ks(<<20, 20, 380, 380>>), "#1a1a2e", "#0f3460", 3)),
       DrawStmt(344, DrawPieslice(Ks(<<60, 60, 340, 340>>), 180, 360,
                              "#0066cc", "#0f3460", 1)),
       DrawStmt(347, DrawPieslice(Ks(<<60, 60, 340, 340>>), 0, 180,
                              "#8b4513", "#0f3460", 1)),
       DrawStmt(350, DrawLine(<<K(60), N("center"), K(340), N("center")>>, FALSE,
                          "#ffffff", 3)),
       DrawStmt(353, DrawLine(<<Minus(N("center"), K(40)), N("center"),
                            Minus(N("center"), K(20)), N("center")>>, FALSE,
                          "#ffff00", 4)),
       DrawStmt(354, DrawLine(<<Plus(N("center"), K(20)), N("center"),
                            Plus(N("center"), K(40)), N("center")>>, FALSE,
                          "#ffff00", 4)),
       DrawStmt(355, DrawEllipse(<<Minus(N("center"), K(8)), Minus(N("center"), K(8)),
                               Plus(N("center"), K(8)), Plus(N("center"), K(8))>>,
                             "#ffff00", "#ff8800", 2)),
       ForStartStmt(358, K(horizon_ticks), FALSE),
       At("tick_next", ForNextStmt(358, <<"i">>, "title")),
       AssignStmt(359, "y", Plus(N("center"), Times(N("i"), K(2)))),
       IfStmt(360, Ne(N("i"), K(0)), "tick_next"),
       DrawStmt(361, DrawLine(<<K(80), N("y"), K(100), N("y")>>, FALSE, "#ffffff", 2)),
       Then(DrawStmt(362, DrawLine(<<K(300), N("y"), K(320), N("y")>>, FALSE,
                               "#ffffff", 2)),
            "tick_next"),
       At("title", DrawStmt(365, DrawText(<<N("center"), K(80)>>, FALSE, K("HORIZON"),
                                      "#ffffff", "mm"))),
       DrawStmt(366, DrawText(<<N("center"), K(320)>>, FALSE, K("Attitude"),
                          "#aaaaaa", "mm")),
       SaveStmt(368, K("images/horizon-gauge.png")) >>

\* ------------------------------------------------------------------------
\* The batch and its scopes

\* The gauges in the order the script produces them.
BatchOrder ==
    <<"thrust", "engine", "positive", "weight", "negative", "fuel", "compass",
      "horizon">>

Gauges == {BatchOrder[k] : k \in 1..Len(BatchOrder)}

\* The gauges drawn by module-level statements: they read and write the
\* module's global names.
ModuleLevel == {"thrust", "fuel", "horizon"}

\* Direct calls of the two functions with arguments chosen by the caller.
CallOrder == <<"call_create_gauge", "call_create_standard_color_gauge">>
Calls == {CallOrder[k] : k \in 1..Len(CallOrder)}

GaugeTypes == {"standard", "fuel", "compass"}
Titles == {"", "ENGINE", "COMPASS"}
Subtitles == {"", "Condition"}
ArgSet == [gauge_type : GaugeTypes, title : Titles, subtitle : Subtitles]
NoArgs == [gauge_type |-> "", title |-> "", subtitle |-> ""]

\* A function call binds its names in a scope of its own.
ScopeGlobal(t) == "G"

Scope(t) == IF t \in ModuleLevel THEN "G" ELSE t
Scopes == {"G"} \cup (Gauges \ ModuleLevel) \cup Calls

\* A scope before any assignment.  Every program binds a name before it
\* reads it and no statement unbinds a name, so no read finds a name unbound.
Unbound ==
    [filename |-> "", gauge_type |-> "", title |-> "", subtitle |-> "",
     size |-> "", img |-> "", draw |-> "", center |-> "", outer_radius |-> "",
     inner_radius |-> "", start_angle |-> "", end_angle |-> "", angles |-> "",
     labels |-> "", i |-> "", angle |-> "", angle_rad |-> "", x1 |-> "",
     y1 |-> "", x2 |-> "", y2 |-> "", label_x |-> "", label_y |-> "",
     bbox |-> "", minor_angles |-> "", angles_original |-> "",
     angle_orig |-> "", minor_angles_original |-> "", pump_x |-> "",
     pump_y |-> "", droplet_top_x |-> "", droplet_top_y |-> "", y |-> ""]

File(t) ==
    CASE t = "thrust" -> "images/thrust-gauge.png"
      [] t = "engine" -> "images/engine-gauge.png"
      [] t = "positive" -> "images/positive-gauge.png"
      [] t = "weight" -> "images/weight-gauge.png"
      [] t = "negative" -> "images/negative-gauge.png"
      [] t = "fuel" -> "images/fuel-gauge.png"
      [] t = "compass" -> "images/compass-gauge.png"
      [] t = "horizon" -> "images/horizon-gauge.png"
      [] t = "call_create_gauge" -> "out/create_gauge.png"
      [] t = "call_create_standard_color_gauge" -> "out/create_standard_color_gauge.png"

\* The call that starts a function-call task; a are the arguments of the
\* direct calls.
CallOf(t, a) ==
    CASE t = "engine" ->
           CallStmt(240, <<"filename", "title", "subtitle">>,
                    <<File(t), "ENGINE", "Condition">>)
      [] t = "positive" ->
           CallStmt(241, <<"filename", "title", "subtitle">>,
                    <<File(t), "POSITIVE", "Emotion">>)
      [] t = "weight" ->
           CallStmt(242, <<"filename", "title", "subtitle">>,
                    <<File(t), "WEIGHT", "Balance">>)
      [] t = "negative" ->
           CallStmt(243, <<"filename", "title", "subtitle">>,
                    <<File(t), "NEGATIVE", "Stress">>)
      [] t = "compass" ->
           CallStmt(333, <<"filename", "gauge_type", "title", "subtitle">>,
                    <<File(t), "compass", "COMPASS", "Direction">>)
      [] t = "call_create_gauge" ->
           CallStmt(7, <<"filename", "gauge_type", "title", "subtitle">>,
                    <<File(t), a.gauge_type, a.title, a.subtitle>>)
      [] t = "call_create_standard_color_gauge" ->
           CallStmt(177, <<"filename", "title", "subtitle">>,
                    <<File(t), a.title, a.subtitle>>)

\* The statements task t executes after its call, if it is one.
Body(t) ==
    CASE t = "thrust" -> thrust_block
      [] t = "fuel" -> fuel_block
      [] t = "horizon" -> horizon_block
      [] t \in {"compass", "call_create_gauge"} -> create_gauge
      [] OTHER -> create_standard_color_gauge

\* The program of task t: its call, then the body; the module-level blocks
\* have no call.
CallLen(t) == IF t \in ModuleLevel THEN 0 ELSE 1
StmtAt(t, k, a) == IF k <= CallLen(t) THEN CallOf(t, a) ELSE Body(t)[k - CallLen(t)]
ProgLen(t) == CallLen(t) + Len(Body(t))
End(t) == ProgLen(t) + 1

\* The statement labelled `label` in the program of t.
Target(t, label) ==
    CallLen(t) + (CHOOSE k \in 1..Len(Body(t)) :
                     "label" \in DOMAIN Body(t)[k] /\ Body(t)[k].label = label)

\* ------------------------------------------------------------------------
\* Executing a statement

\* The drawing surface a draw.<shape>(...) call paints on.
DrawSurface(e) == e.draw

\* The statement raises IndexError (labels[i] out of range).
Raises(s, e) ==
    \/ s.op = "if" /\ s.cond.c = "has_label"
         /\ Eval(s.cond.b, e) < Len(Eval(s.cond.a, e))
         /\ SubscriptRaises(Subscript(s.cond.a, s.cond.b), e)
    \/ s.op = "draw" /\ s.cmd.op = "text" /\ SubscriptRaises(s.cmd.text, e)
    \/ s.op = "assign" /\ s.val.e = "textbbox" /\ SubscriptRaises(s.val.text, e)
    \/ s.op = "assign" /\ SubscriptRaises(s.val, e)

\* Task t leaves its statement s: to the statement s names, else to the
\* next one; to the statement labelled `label`; and to its end after an
\* exception.
Continue(t, s, m) ==
    [m EXCEPT !.pc[t] = IF "goto" \in DOMAIN s THEN Target(t, s.goto) ELSE @ + 1,
              !.steps[t] = @ + 1]
Jump(t, label, m) == [m EXCEPT !.pc[t] = Target(t, label), !.steps[t] = @ + 1]
Abort(t, m) == [m EXCEPT !.pc[t] = End(t), !.steps[t] = @ + 1]

\* Binding the names `names` to the values `values` in the scope e.
Bind(names, values, e) ==
    [n \in DOMAIN e |->
        IF \E j \in 1..Len(names) : names[j] = n
          THEN values[CHOOSE j \in 1..Len(names) : names[j] = n]
          ELSE e[n]]

\* The machine after task t executes the statement s in the scope sc, whose
\* names are bound as in e.  iter[t] holds the items the for loop of t has
\* yet to bind; an exception ends the task.
ExecStmt(t, s, sc, e, m) ==
    IF Raises(s, e) THEN Abort(t, m)
    ELSE CASE s.op = "call" ->
                [Continue(t, s, m) EXCEPT !.env[sc] = Bind(s.params, s.values, e)]
           [] s.op = "new_image" ->
                [Continue(t, s, m) EXCEPT !.canvas[t] = <<>>, !.env[sc].img = t]
           [] s.op = "bind_draw" ->
                [Continue(t, s, m) EXCEPT !.env[sc].draw = e.img]
           [] s.op = "assign" ->
                [Continue(t, s, m) EXCEPT !.env[sc][s.var] = Eval(s.val, e)]
           [] s.op = "draw" ->
                [Continue(t, s, m) EXCEPT
                    !.canvas[DrawSurface(e)] = Append(@, EvalCmd(s.cmd, e))]
           [] s.op = "for_start" ->
                [Continue(t, s, m) EXCEPT
                    !.iter[t] = Items(Eval(s.iterable, e), s.enumerated)]
           [] s.op = "for_next" ->
                IF Len(m.iter[t]) = 0 THEN Jump(t, s.exit, m)
                ELSE [Continue(t, s, m) EXCEPT
                        !.iter[t] = Tail(@),
                        !.env[sc] = Bind(s.targets, Head(m.iter[t]), e)]
           [] s.op = "if" ->
                IF EvalCond(s.cond, e) THEN Continue(t, s, m)
                ELSE Jump(t, s.else, m)
           [] s.op = "save" ->
                [Continue(t, s, m) EXCEPT !.files =
                    [f \in (DOMAIN m.files) \cup {Eval(s.file, e)} |->
                        IF f = Eval(s.file, e) THEN m.canvas[e.img]
                        ELSE m.files[f]]]

\* The machine m = [pc, iter, env, canvas, files, steps] after task t
\* executes its next statement; a are the arguments of a direct call.
Exec(t, a, m) ==
    ExecStmt(t, StmtAt(t, m.pc[t], a), Scope(t), m.env[Scope(t)], m)

Machine0(tasks) ==
    [pc |-> [t \in tasks |-> 1], iter |-> [t \in tasks |-> <<>>],
     env |-> [sc \in Scopes |-> Unbound], canvas |-> [t \in tasks |-> <<>>],
     files |-> <<>>, steps |-> [t \in tasks |-> 0]]

\* The machine after task t executes n statements one after the other, or
\* as many as it has left (the first half, then the second half from the
\* machine the first half leaves).
RECURSIVE RunSteps(_, _, _, _)
RunSteps(t, n, a, m) ==
    IF n = 0 \/ m.pc[t] = End(t) THEN m
    ELSE IF n = 1 THEN Exec(t, a, m)
    ELSE CHOOSE last \in
             {RunSteps(t, n - (n \div 2), a, first) :
                 first \in {RunSteps(t, n \div 2, a, m)}} : TRUE

\* The machine after task t runs to its last statement.
RECURSIVE RunToEnd(_, _, _)
RunToEnd(t, a, m) ==
    IF m.pc[t] = End(t) THEN m
    ELSE CHOOSE last \in
             {RunToEnd(t, a, first) : first \in {RunSteps(t, 64, a, m)}} : TRUE

\* ------------------------------------------------------------------------
\* The script, one statement per step

Machine ==
    [pc |-> pc, iter |-> iter, env |-> env, canvas |-> canvas, files |-> files,
     steps |-> [t \in DOMAIN pc |-> 0]]

Become(m) ==
    /\ pc' = m.pc
    /\ iter' = m.iter
    /\ env' = m.env
    /\ canvas' = m.canvas
    /\ files' = m.files

NextStmt(t) == StmtAt(t, pc[t], args)
Started(t) == pc[t] > 1
Finished(t) == pc[t] = End(t)

\* A module-level block is interfered with when a statement of another
\* module-level block runs between its first and its last statement: task t
\* running interferes with the module-level blocks in progress.
Interfere(t) ==
    [u \in DOMAIN pc |->
        interfered[u]
          \/ (/\ t \in ModuleLevel
              /\ u \in ModuleLevel \ {t}
              /\ Started(u)
              /\ ~Finished(u))]

\* Task t executes its next statement, which is an `op` statement.
Step(t, op) ==
    /\ ~Finished(t)
    /\ NextStmt(t).op = op
    /\ \E m \in {Exec(t, args, Machine)} : Become(m)
    /\ interfered' = Interfere(t)
    /\ UNCHANGED <<preempted, args>>

CallFunction(t) == Step(t, "call")
NewImage(t) == Step(t, "new_image")
BindDraw(t) == Step(t, "bind_draw")
Assign(t) == Step(t, "assign")
Draw(t) == Step(t, "draw")
ForStart(t) == Step(t, "for_start")
ForNext(t) == Step(t, "for_next")
If(t) == Step(t, "if")
Save(t) == Step(t, "save")

\* t is the first task of `order` that has not finished.
IsNext(order, t) ==
    \E k \in 1..Len(order) :
        /\ order[k] = t
        /\ ~Finished(t)
        /\ \A j \in 1..(k - 1) : Finished(order[j])

InitTasks(tasks) ==
    /\ pc = Machine0(tasks).pc
    /\ iter = Machine0(tasks).iter
    /\ env = Machine0(tasks).env
    /\ canvas = Machine0(tasks).canvas
    /\ files = Machine0(tasks).files
    /\ interfered = [t \in tasks |-> FALSE]
    /\ preempted = ""

\* The script as written: the eight gauges in program order.
Init == InitTasks(Gauges) /\ args = NoArgs

Next ==
    \/ \E t \in Gauges : IsNext(BatchOrder, t) /\ CallFunction(t)
    \/ \E t \in Gauges : IsNext(BatchOrder, t) /\ NewImage(t)
    \/ \E t \in Gauges : IsNext(BatchOrder, t) /\ BindDraw(t)
    \/ \E t \in Gauges : IsNext(BatchOrder, t) /\ Assign(t)
    \/ \E t \in Gauges : IsNext(BatchOrder, t) /\ Draw(t)
    \/ \E t \in Gauges : IsNext(BatchOrder, t) /\ ForStart(t)
    \/ \E t \in Gauges : IsNext(BatchOrder, t) /\ ForNext(t)
    \/ \E t \in Gauges : IsNext(BatchOrder, t) /\ If(t)
    \/ \E t \in Gauges : IsNext(BatchOrder, t) /\ Save(t)

Spec == Init /\ [][Next]_vars

\* Direct calls of create_gauge and create_standard_color_gauge, the
\* arguments drawn from GaugeTypes, Titles and Subtitles.
InitCalls == InitTasks(Calls) /\ args \in ArgSet

NextCalls ==
    \/ \E t \in Calls : IsNext(CallOrder, t) /\ CallFunction(t)
    \/ \E t \in Calls : IsNext(CallOrder, t) /\ NewImage(t)
    \/ \E t \in Calls : IsNext(CallOrder, t) /\ BindDraw(t)
    \/ \E t \in Calls : IsNext(CallOrder, t) /\ Assign(t)
    \/ \E t \in Calls : IsNext(CallOrder, t) /\ Draw(t)
    \/ \E t \in Calls : IsNext(CallOrder, t) /\ ForStart(t)
    \/ \E t \in Calls : IsNext(CallOrder, t) /\ ForNext(t)
    \/ \E t \in Calls : IsNext(CallOrder, t) /\ If(t)
    \/ \E t \in Calls : IsNext(CallOrder, t) /\ Save(t)

SpecCalls == InitCalls /\ [][NextCalls]_vars

\* ------------------------------------------------------------------------
\* The gauges in any order, and the statements of two gauges interleaved.
\* The script has no thread and no suspension point of its own.  The
\* schedules are those of a caller that generates the gauges in an order of
\* its choice, each from its first to its last statement, or that switches
\* from one gauge to another between any two statements of the first: the
\* gauge is preempted after n of its statements, for every n, another gauge
\* runs in the gap, and the preempted gauge resumes.

\* Each gauge generated alone, from a fresh interpreter: the image file it
\* saves and the number of statements it executes.
AloneRuns ==
    <<>> \o [k \in 1..Len(BatchOrder) |->
                RunToEnd(BatchOrder[k], NoArgs, Machine0(Gauges))]
AloneRun(t) == AloneRuns[CHOOSE k \in 1..Len(BatchOrder) : BatchOrder[k] = t]
Alone == [t \in Gauges |-> AloneRun(t).files[File(t)]]
StepsAlone(t) == AloneRun(t).steps[t]

\* No gauge is in progress and none was preempted: gauge t runs from its
\* first to its last statement.
RunToCompletion(t) ==
    /\ preempted = ""
    /\ \A u \in Gauges : Started(u) => Finished(u)
    /\ ~Started(t)
    /\ \E m \in {RunToEnd(t, args, Machine)} : Become(m)
    /\ interfered' = Interfere(t)
    /\ UNCHANGED <<preempted, args>>

\* In a fresh interpreter gauge t executes its first n statements and is
\* preempted before the next one.
Preempt(t, n) ==
    /\ preempted = ""
    /\ \A u \in Gauges : ~Started(u)
    /\ \E m \in {RunSteps(t, n, args, Machine)} : Become(m)
    /\ interfered' = Interfere(t)
    /\ preempted' = t
    /\ UNCHANGED args

\* While gauge `preempted` is suspended, another gauge u runs from its first
\* to its last statement.
Gap(u) ==
    /\ preempted # ""
    /\ u # preempted
    /\ \A v \in Gauges \ {preempted} : ~Started(v)
    /\ \E m \in {RunToEnd(u, args, Machine)} : Become(m)
    /\ interfered' = Interfere(u)
    /\ UNCHANGED <<preempted, args>>

\* The preempted gauge t resumes and runs to its last statement.
Resume(t) ==
    /\ preempted = t
    /\ ~Finished(t)
    /\ \E u \in Gauges \ {t} : Finished(u)
    /\ \E m \in {RunToEnd(t, args, Machine)} : Become(m)
    /\ interfered' = Interfere(t)
    /\ UNCHANGED <<preempted, args>>

NextPar ==
    \/ \E t \in Gauges : RunToCompletion(t)
    \/ \E t \in Gauges : \E n \in 1..(StepsAlone(t) - 1) : Preempt(t, n)
    \/ \E u \in Gauges : Gap(u)
    \/ \E t \in Gauges : Resume(t)

SpecPar == Init /\ [][NextPar]_vars

\* ------------------------------------------------------------------------
\* Reading an image's command sequence

IsPolar(p) == "deg" \in DOMAIN p
IsZone(c) == c.op = "pieslice"
IsLine(c) == c.op = "line"
IsInnerFace(c) ==
    c.op = "ellipse" /\ c.bbox \in {<<100, 100, 300, 300>>, <<60, 60, 340, 340>>}
IsMajorTick(c) == c.op = "line" /\ IsPolar(c.p1) /\ c.width = 3
IsMinorTick(c) == c.op = "line" /\ IsPolar(c.p1) /\ c.width = 2
IsTick(c) == IsMajorTick(c) \/ IsMinorTick(c)
IsLabel(c) == c.op = "text" /\ IsPolar(c.p)
IsTickOrLabel(c) == IsTick(c) \/ IsLabel(c)

Zones(cmds) == SelectSeq(cmds, IsZone)
MajorTicks(cmds) == SelectSeq(cmds, IsMajorTick)
MinorTicks(cmds) == SelectSeq(cmds, IsMinorTick)
Labels(cmds) == SelectSeq(cmds, IsLabel)
TicksAndLabels(cmds) == SelectSeq(cmds, IsTickOrLabel)

\* The angle (degrees) of a tick or label command.
Deg(c) == IF c.op = "line" THEN c.p1.deg ELSE c.p.deg
Degs(cmds) == [k \in 1..Len(cmds) |-> Deg(cmds[k])]

\* The sweep of a pie slice as the drawing surface renders it: a span of 360
\* or more is the full circle, any other span is taken modulo 360.
Sweep(z) == IF z.end - z.start >= 360 THEN 360 ELSE (z.end - z.start) % 360

\* The one-degree segments [d, d+1) of the circle an arc of w degrees from
\* `start` covers, and the angles strictly inside it, modulo 360.
Segments(start, w) == {(start + k) % 360 : k \in 0..(w - 1)}
Interior(start, w) == {(start + k) % 360 : k \in 1..(w - 1)}

Spans(zs) == [k \in 1..Len(zs) |-> <<zs[k].start, zs[k].end>>]

NoCommonInterior(zs) ==
    \A i, j \in 1..Len(zs) :
        i # j => Interior(zs[i].start, Sweep(zs[i]))
                   \cap Interior(zs[j].start, Sweep(zs[j])) = {}

\* The sum of the clockwise steps between consecutive angles.
RECURSIVE ArcLength(_)
ArcLength(degs) ==
    IF Len(degs) < 2 THEN 0
    ELSE ((degs[2] - degs[1]) % 360) + ArcLength(Tail(degs))

StdFamily == {"thrust", "engine", "positive", "weight", "negative"}
TickGauges == StdFamily \cup {"fuel", "compass"}

\* The minor-step angle sequence of a gauge, as drawn (after the rotation).
TickSequence(t) ==
    IF t = "thrust"
      THEN [k \in 1..Len(thrust_minor_angles_original) |->
               thrust_angle(thrust_minor_angles_original[k])]
    ELSE IF t = "fuel" THEN fuel_minor_angles
    ELSE IF t = "compass" THEN create_gauge_minor_angles("compass")
    ELSE [k \in 1..Len(std_minor_angles_original) |->
             std_angle(std_minor_angles_original[k])]

\* majorStep / minorStep of the 30-degree / 10-degree gauges.
StepRatio == 30 \div 10

AllSaved == \A t \in Gauges : File(t) \in DOMAIN files

\* ------------------------------------------------------------------------
\* C1: in every image of the batch, at every point of its drawing, each
\* pie-slice command comes before the inner-face circle and before every line
\* command (tick marks included).
C1_ZonesFirst ==
    \A t \in Gauges :
        \A i, j \in 1..Len(canvas[t]) :
            (IsZone(canvas[t][j])
               /\ (IsInnerFace(canvas[t][i]) \/ IsLine(canvas[t][i])))
            => j < i

\* All eight images are saved; the thrust, fuel and horizon images hold
\* zones and lines, the thrust and fuel images an inner face.
C1_Witness ==
    /\ AllSaved
    /\ \A t \in {"thrust", "engine", "fuel"} :
          /\ Len(Zones(files[File(t)])) = 3
          /\ \E i \in 1..Len(files[File(t)]) : IsInnerFace(files[File(t)][i])
          /\ Len(SelectSeq(files[File(t)], IsTick)) > 0
    /\ Len(Zones(files[File("horizon")])) = 2
    /\ Len(SelectSeq(files[File("horizon")], IsLine)) = 15

\* C2: the three zones of each gauge of the thrust/engine/positive/weight/
\* negative family are 150->230, 230->310, 310->390; their widths end-start
\* sum to 240 and, modulo 360, no angle is inside two zones.
C2_StandardZones ==
    \A t \in StdFamily :
        LET zs == Zones(canvas[t])
        IN Len(zs) = 3 =>
             /\ Spans(zs) = << <<150, 230>>, <<230, 310>>, <<310, 390>> >>
             /\ (zs[1].end - zs[1].start) + (zs[2].end - zs[2].start)
                  + (zs[3].end - zs[3].start) = 240
             /\ NoCommonInterior(zs)

C2_Witness ==
    \A t \in StdFamily : Finished(t) /\ Len(Zones(files[File(t)])) = 3

\* C3 as stated: the fuel zones are passed as 270->330, 330->30, 30->90 and
\* their widths end-start sum to 180, no angle inside two zones.
C3_Original ==
    LET zs == Zones(canvas["fuel"])
    IN Len(zs) = 3 =>
         /\ Spans(zs) = << <<270, 330>>, <<330, 30>>, <<30, 90>> >>
         /\ (zs[1].end - zs[1].start) + (zs[2].end - zs[2].start)
              + (zs[3].end - zs[3].start) = 180
         /\ NoCommonInterior(zs)

\* C3 amended: the fuel zones are passed as 270->330, 330->30, 30->90; their
\* widths (end-start) modulo 360 sum to 180 and no angle is inside two zones.
C3_FuelZones ==
    LET zs == Zones(canvas["fuel"])
    IN Len(zs) = 3 =>
         /\ Spans(zs) = << <<270, 330>>, <<330, 30>>, <<30, 90>> >>
         /\ Sweep(zs[1]) + Sweep(zs[2]) + Sweep(zs[3]) = 180
         /\ NoCommonInterior(zs)

C3_Witness == Finished("fuel") /\ Len(Zones(files[File("fuel")])) = 3

\* C4 as stated: for every gauge with 30/10 ticks, the number of major ticks
\* times 3 is the number of angles of the minor-step sequence.
C4_Original ==
    \A t \in TickGauges :
        Finished(t) =>
            Len(MajorTicks(canvas[t])) * StepRatio = Len(TickSequence(t))

\* C4 amended: for the gauges whose tick range includes both end angles
\* (standard family, thrust, fuel), (major ticks - 1) * 3 = (angles of the
\* minor-step sequence - 1); for the compass, whose range excludes 360, major
\* ticks * 3 = angles of the minor-step sequence.
C4_TickCounts ==
    \A t \in TickGauges :
        Finished(t) =>
            IF t = "compass"
              THEN Len(MajorTicks(canvas[t])) * StepRatio = Len(TickSequence(t))
              ELSE (Len(MajorTicks(canvas[t])) - 1) * StepRatio
                     = Len(TickSequence(t)) - 1

C4_Witness ==
    /\ \A t \in TickGauges : Finished(t)
    /\ Len(MajorTicks(canvas["engine"])) = 9
    /\ Len(MajorTicks(canvas["fuel"])) = 7
    /\ Len(MajorTicks(canvas["compass"])) = 12

\* ------------------------------------------------------------------------
\* C5: the unrotated standard gauge (create_gauge, standard arc) draws its
\* ticks and labels at the native angles -120..120 plus 0; the gauges laid
\* out with the offset 90+180 (create_standard_color_gauge, thrust) draw the
\* same ticks and labels in the same order, at the same radius, each at the
\* unrotated angle plus 270.
Radii(c) == IF c.op = "line" THEN <<c.p1.r, c.p2.r>> ELSE <<c.p.r>>
Centers(c) == IF c.op = "line" THEN <<c.p1.c, c.p2.c>> ELSE <<c.p.c>>
Mark(c) == IF c.op = "line" THEN <<"line", c.width>> ELSE <<"text", c.text>>

ShiftedBy(unrotated, rotated, offset) ==
    /\ Len(rotated) = Len(unrotated)
    /\ \A i \in 1..Len(unrotated) :
          /\ Mark(rotated[i]) = Mark(unrotated[i])
          /\ Radii(rotated[i]) = Radii(unrotated[i])
          /\ Centers(rotated[i]) = Centers(unrotated[i])
          /\ Deg(rotated[i]) = Deg(unrotated[i]) + offset

NativeMinor(a) == ~In(a, std_angles_original)

C5_Rotation ==
    LET U == TicksAndLabels(canvas["call_create_gauge"])
        R == TicksAndLabels(canvas["call_create_standard_color_gauge"])
    IN (\A t \in Calls : Finished(t)) /\ args.gauge_type = "standard" =>
         /\ Degs(MajorTicks(U)) =
              [k \in 1..Len(std_angles_original) |-> std_angles_original[k] + 0]
         /\ Degs(MinorTicks(U)) =
              SelectSeq([k \in 1..Len(std_minor_angles_original) |->
                            std_minor_angles_original[k] + 0], NativeMinor)
         /\ Degs(Labels(U)) = <<-120, 0, 120>>
         /\ ShiftedBy(U, R, 90 + 180)
         /\ ShiftedBy(U, TicksAndLabels(Alone["thrust"]), 90 + 180)

C5_Witness ==
    /\ \A t \in Calls : Finished(t)
    /\ args.gauge_type = "standard"
    /\ Len(MajorTicks(canvas["call_create_standard_color_gauge"])) = 9
    /\ Len(MinorTicks(canvas["call_create_gauge"])) = 16
    /\ Len(Labels(canvas["call_create_gauge"])) = 3

\* ------------------------------------------------------------------------
\* C6 as stated: in any order and with the steps of the gauges interleaved,
\* every saved image is the image the gauge yields when generated alone.
C6_Original ==
    \A t \in Gauges :
        File(t) \in DOMAIN files => files[File(t)] = Alone[t]

\* C6 amended: the image saved for a gauge is the image the gauge yields
\* when generated alone, whatever ran before it and whatever ran between
\* its statements, unless the gauge is a module-level block (thrust, fuel,
\* horizon) and a statement of another module-level block ran between its
\* first and its last statement.
C6_Independent ==
    \A t \in Gauges :
        (File(t) \in DOMAIN files /\ ~interfered[t])
        => files[File(t)] = Alone[t]

\* Only a module-level block is ever interfered with, and only by another
\* module-level block while it is suspended.
C6_InterferedOnlyModuleLevel ==
    \A t \in Gauges :
        interfered[t] =>
            /\ t \in ModuleLevel
            /\ preempted = t
            /\ \E u \in ModuleLevel \ {t} : Started(u)

\* The engine call was preempted between two of its statements, the fuel
\* block ran in between, and both images are saved.
C6_Witness ==
    /\ preempted = "engine"
    /\ Finished("engine") /\ Finished("fuel")
    /\ ~interfered["engine"] /\ ~interfered["fuel"]
    /\ files[File("engine")] = Alone["engine"]
    /\ files[File("fuel")] = Alone["fuel"]

\* ------------------------------------------------------------------------
\* C7: the engine gauge holds 9 major ticks, 3 labels "0", "50", "100" at the
\* angles of the major ticks 0, 4 and 8, and 3 zones, all of them before the
\* first tick.
C7_Engine ==
    LET cmds == canvas["engine"]
        major == MajorTicks(cmds)
        labels == Labels(cmds)
    IN Finished("engine") =>
         /\ Len(major) = 9
         /\ [k \in 1..Len(labels) |-> labels[k].text] = <<"0", "50", "100">>
         /\ Degs(labels) = <<Deg(major[1]), Deg(major[5]), Deg(major[9])>>
         /\ Len(Zones(cmds)) = 3
         /\ \A i, j \in 1..Len(cmds) :
               IsZone(cmds[i]) /\ IsTick(cmds[j]) => i < j
         /\ \E i \in 1..Len(cmds) : cmds[i].op = "text" /\ cmds[i].text = "ENGINE"
         /\ \E i \in 1..Len(cmds) : cmds[i].op = "text" /\ cmds[i].text = "Condition"

C7_Witness ==
    /\ Finished("engine")
    /\ File("engine") \in DOMAIN files
    /\ Len(MajorTicks(files[File("engine")])) = 9

\* ------------------------------------------------------------------------
\* The label of each major tick, "" where none is drawn at its angle.
LabelsByIndex(cmds) ==
    LET major == MajorTicks(cmds)
        labels == Labels(cmds)
    IN [k \in 1..Len(major) |->
          IF \E i \in 1..Len(labels) : Deg(labels[i]) = Deg(major[k])
            THEN labels[CHOOSE i \in 1..Len(labels) :
                            Deg(labels[i]) = Deg(major[k])].text
            ELSE ""]

\* The shapes of the fuel pump icon: the rectangles and polygons, and the
\* ellipses other than the background, the inner face and the hub.
IsIconShape(c) ==
    \/ c.op \in {"rectangle", "polygon"}
    \/ /\ c.op = "ellipse"
       /\ c.bbox \notin {<<20, 20, 380, 380>>, <<100, 100, 300, 300>>,
                         <<185, 185, 215, 215>>}

FuelTicksAndLabels(cmds) ==
    /\ Len(MajorTicks(cmds)) = 7
    /\ ArcLength(Degs(MajorTicks(cmds))) = 180
    /\ LabelsByIndex(cmds) = <<"F", "", "", "", "", "", "E">>
    /\ Len(Labels(cmds)) = 2

\* C8 as stated: 7 major ticks over 180 degrees labelled F ... E, and an
\* icon of exactly 4 shape primitives.
C8_Original ==
    Finished("fuel") =>
        /\ FuelTicksAndLabels(canvas["fuel"])
        /\ Len(SelectSeq(canvas["fuel"], IsIconShape)) = 4

\* C8 amended: 7 major ticks over 180 degrees labelled F ... E, and an icon
\* of exactly 5 shape primitives for its four parts: body, nozzle and screen
\* are one rectangle each, the droplet is an ellipse and a polygon.
C8_Fuel ==
    LET icon == SelectSeq(canvas["fuel"], IsIconShape)
    IN Finished("fuel") =>
         /\ FuelTicksAndLabels(canvas["fuel"])
         /\ [k \in 1..Len(icon) |-> icon[k].op] =
              <<"rectangle", "rectangle", "rectangle", "ellipse", "polygon">>

C8_Witness ==
    /\ Finished("fuel")
    /\ Len(Labels(files[File("fuel")])) = 2
    /\ \E i \in 1..Len(files[File("fuel")]) : files[File("fuel")][i].op = "polygon"

\* ------------------------------------------------------------------------
\* The zones of an image are contiguous and cover the arc from its first to
\* its last major tick exactly once, and every tick lies inside a zone.
ExactCover(cmds) ==
    LET zs == Zones(cmds)
        major == MajorTicks(cmds)
        arc == Segments(Deg(major[1]), ArcLength(Degs(major)))
    IN /\ Len(zs) > 0
       /\ \A i \in 1..(Len(zs) - 1) : zs[i].end % 360 = zs[i + 1].start % 360
       /\ \A seg \in 0..359 :
             Cardinality({i \in 1..Len(zs) :
                             seg \in Segments(zs[i].start, Sweep(zs[i]))})
               = IF seg \in arc THEN 1 ELSE 0
       /\ \A k \in 1..Len(cmds) :
             IsTick(cmds[k]) =>
                 \E i \in 1..Len(zs) :
                     (Deg(cmds[k]) - zs[i].start) % 360 <= Sweep(zs[i])

\* C9 as stated: for every gauge with ticks (compass included) the zones
\* cover the tick arc exactly once.
C9_Original ==
    \A t \in TickGauges : Finished(t) => ExactCover(canvas[t])

\* C9 amended: for every gauge with ticks and zones (standard family,
\* thrust, fuel) the zones cover the tick arc exactly once; the compass has
\* ticks and no zone.
C9_ZonesCoverTicks ==
    \A t \in TickGauges :
        Finished(t) =>
            IF t = "compass"
              THEN Len(Zones(canvas[t])) = 0
                     /\ Len(SelectSeq(canvas[t], IsTick)) = 36
              ELSE ExactCover(canvas[t])

C9_Witness ==
    /\ \A t \in TickGauges : Finished(t)
    /\ Len(Zones(canvas["fuel"])) = 3
    /\ Len(Zones(canvas["negative"])) = 3
    /\ Len(MajorTicks(canvas["compass"])) = 12

\* ------------------------------------------------------------------------
\* C10: the major ticks are every third angle of the minor-step sequence
\* from its first, the minor ticks are the other angles in order, and each
\* angle of the sequence has exactly one tick line.
C10_MajorMinorSplit ==
    \A t \in TickGauges :
        LET seq == TickSequence(t)
            nMajor == (Len(seq) + StepRatio - 1) \div StepRatio
            ticks == SelectSeq(canvas[t], IsTick)
        IN Finished(t) =>
             /\ Degs(MajorTicks(canvas[t])) =
                  [k \in 1..nMajor |-> seq[StepRatio * (k - 1) + 1]]
             /\ Degs(MinorTicks(canvas[t])) =
                  [j \in 1..(Len(seq) - nMajor) |-> seq[j + ((j + 1) \div 2)]]
             /\ \A k \in 1..Len(seq) :
                   Cardinality({i \in 1..Len(ticks) : Deg(ticks[i]) = seq[k]}) = 1
             /\ Len(ticks) = Len(seq)

C10_Witness ==
    /\ \A t \in TickGauges : Finished(t)
    /\ Len(MinorTicks(canvas["thrust"])) = 16
    /\ Len(MinorTicks(canvas["fuel"])) = 12
    /\ Len(MinorTicks(canvas["compass"])) = 24

====
